---- MODULE Spec2Model ----
(***************************************************************************)
(* Model of wayfire's seat: src/core/seat/seat.cpp.                        *)
(*                                                                         *)
(*   - the drag-and-drop slot (core->input->drag_icon), the drag icon      *)
(*     listeners and the drag-started / drag-stopped signals;              *)
(*   - the start-drag request validation;                                  *)
(*   - the drag icon's position on its output and the damage it submits    *)
(*     to the outputs;                                                     *)
(*   - input device wrappers: listener subscriptions, set_enabled /        *)
(*     is_enabled, update_options and the switch toggle translation.       *)
(*                                                                         *)
(* wlroots, libinput and the signal bus are the environment: their calls   *)
(* are modelled by the state they hold (grab serials, the libinput         *)
(* settings of a device, the listener lists, the log of emitted signals).  *)
(***************************************************************************)
EXTENDS Integers, Sequences, FiniteSets, TLC

VARIABLES
    seat,        \* wlr_seat: the outstanding pointer / touch grab serials
    ndrags,      \* number of start-drag requests received so far
    drags,       \* per request: the wlr_drag, its icon and its data source
    wrapper,     \* per wlr_drag_icon: the wf_drag_icon built around it
    drag_icon,   \* core->input->drag_icon: 0 is nullptr, else the icon wrapped
    devs,        \* per device slot: the wlr_input_device, its libinput
                 \* settings and the wf_input_device_internal wrapping it
    config,      \* wf_input_device_internal::config
    signals,     \* everything passed to core->emit_signal, in order
    last         \* the handler that ran last, its arguments, what it read,
                 \* its result and the libinput / render calls it made

dragVars == <<seat, ndrags, drags, wrapper, drag_icon>>
devVars  == <<devs, config>>
vars     == <<seat, ndrags, drags, wrapper, drag_icon, devs, config, signals, last>>

(***************************************************************************)
(* Bounds                                                                  *)
(***************************************************************************)
MaxDrags  == 2      \* start-drag requests in one behaviour
MaxSerial == 2      \* serials are 1..MaxSerial; 0 is "no grab outstanding"
MaxTouch  == 2      \* touch point ids

Drags   == 1 .. MaxDrags
Serials == 1 .. MaxSerial
Touches == 1 .. MaxTouch

(***************************************************************************)
(* Signals: core->emit_signal(name, data).  data is nullptr (has_data      *)
(* FALSE) or a wf::switch_signal {device, state}.                          *)
(***************************************************************************)
Signal(name, has_data, device, state) ==
    [name |-> name, has_data |-> has_data, device |-> device, state |-> state]

emit_signal(log, name, has_data, device, state) ==
    Append(log, Signal(name, has_data, device, state))

\* wf_point and wlr_box
Point(x, y) == [x |-> x, y |-> y]
Box(x, y, width, height) == [x |-> x, y |-> y, width |-> width, height |-> height]

\* What get_output_position reads from outside the drag icon: the cursor
\* position, the position of every touch point, and the sx / sy of the
\* icon's surface.
Reading(cursor, touch, offset) == [cursor |-> cursor, touch |-> touch, offset |-> offset]

NoReading == Reading(Point(0, 0), <<>>, Point(0, 0))

NoLast == [op |-> "none", id |-> 0, serial |-> 0, flag |-> FALSE, arg |-> "",
           ret |-> FALSE, outcome |-> "none", calls |-> <<>>,
           read |-> NoReading, pos |-> Point(0, 0),
           box |-> Box(0, 0, 0, 0), damage |-> <<>>]

(***************************************************************************)
(* Drag and drop                                                           *)
(***************************************************************************)
NoDrag == [status |-> "unrequested", grab_type |-> "none", touch_id |-> 0,
           source_destroyed |-> FALSE]

\* The wlr_drag is gone once its icon has been destroyed.
EndedDrag == [NoDrag EXCEPT !.status = "ended"]

\* A wf_drag_icon: whether it exists, whether its surface is mapped, and the
\* output it is assigned to (0 is nullptr).
NoWrapper == [state |-> "none", mapped |-> FALSE, output |-> 0]

\* wlr_seat_validate_pointer_grab_serial(seat, origin, serial)
validate_pointer_grab_serial(s, serial) ==
    s.pointer_grab_serial # 0 /\ s.pointer_grab_serial = serial

\* wlr_seat_validate_touch_grab_serial(seat, origin, serial, &point)
validate_touch_grab_serial(s, serial) ==
    s.touch_grab_serial # 0 /\ s.touch_grab_serial = serial

\* wf_drag_icon::wf_drag_icon(ic): the three listeners are added to the
\* icon's signals and icon->data points at the new object.
wf_drag_icon(w, ic) ==
    [w EXCEPT ![ic] = [state |-> "alive", mapped |-> FALSE, output |-> 0]]

\* Assigning to the unique_ptr frees the wf_drag_icon it held.  No destructor
\* unlinks map_ev / unmap_ev / destroy, so a freed wrapper whose icon is
\* still alive stays linked in the icon's listener lists (a dangling
\* listener: wrapper "freed" while the icon's drag is still "granted").
reset_drag_icon(w, old) ==
    IF old = 0 THEN w ELSE [w EXCEPT ![old] = [state |-> "freed", mapped |-> FALSE, output |-> 0]]

\* handle_start_drag_cb
handle_start_drag_cb(ic) ==
    /\ wrapper'   = reset_drag_icon(wf_drag_icon(wrapper, ic), drag_icon)
    /\ drag_icon' = ic
    /\ signals'   = emit_signal(signals, "drag-started", FALSE, 0, FALSE)

\* A rejection that leaks the data source
reject_start_drag_leak(d) ==
    /\ drags' = [drags EXCEPT ![d].status = "rejected"]
    /\ UNCHANGED <<wrapper, drag_icon, signals>>

\* The last two statements of handle_request_start_drag_cb: log, then
\* wlr_data_source_destroy(ev->drag->source).
reject_start_drag(d) ==
    /\ drags' = [drags EXCEPT ![d].status = "rejected",
                              ![d].source_destroyed = TRUE]
    /\ UNCHANGED <<wrapper, drag_icon, signals>>

\* handle_request_start_drag_cb with the touch serial validated first
handle_request_start_drag_cb_touch_first(serial) ==
    LET d == ndrags + 1 IN
    /\ ndrags < MaxDrags
    /\ ndrags' = d
    /\ UNCHANGED <<seat, devVars>>
    /\ IF validate_touch_grab_serial(seat, serial)
       THEN /\ drags' = [drags EXCEPT ![d].status = "granted",
                                      ![d].grab_type = "touch",
                                      ![d].touch_id = seat.touch_id]
            /\ handle_start_drag_cb(d)
            /\ last' = [NoLast EXCEPT !.op = "request_start_drag", !.id = d,
                                      !.serial = serial, !.outcome = "touch"]
       ELSE IF validate_pointer_grab_serial(seat, serial)
       THEN /\ drags' = [drags EXCEPT ![d].status = "granted",
                                      ![d].grab_type = "pointer"]
            /\ handle_start_drag_cb(d)
            /\ last' = [NoLast EXCEPT !.op = "request_start_drag", !.id = d,
                                      !.serial = serial, !.outcome = "pointer"]
       ELSE /\ reject_start_drag(d)
            /\ last' = [NoLast EXCEPT !.op = "request_start_drag", !.id = d,
                                      !.serial = serial, !.outcome = "rejected"]

\* handle_request_start_drag_cb for a request that carries `serial`; the
\* request's wlr_drag (with its icon and data source) is the next unused one.
\* wlr_seat_start_pointer_drag / wlr_seat_start_touch_drag emit the seat's
\* start_drag signal, which runs handle_start_drag_cb before they return.
handle_request_start_drag_cb(serial) ==
    LET d == ndrags + 1 IN
    /\ ndrags < MaxDrags
    /\ ndrags' = d
    /\ UNCHANGED <<seat, devVars>>
    /\ IF validate_pointer_grab_serial(seat, serial)
       THEN /\ drags' = [drags EXCEPT ![d].status = "granted",
                                      ![d].grab_type = "pointer"]
            /\ handle_start_drag_cb(d)
            /\ last' = [NoLast EXCEPT !.op = "request_start_drag", !.id = d,
                                      !.serial = serial, !.outcome = "pointer"]
       ELSE IF validate_touch_grab_serial(seat, serial)
       THEN /\ drags' = [drags EXCEPT ![d].status = "granted",
                                      ![d].grab_type = "touch",
                                      ![d].touch_id = seat.touch_id]
            /\ handle_start_drag_cb(d)
            /\ last' = [NoLast EXCEPT !.op = "request_start_drag", !.id = d,
                                      !.serial = serial, !.outcome = "touch"]
       ELSE /\ reject_start_drag(d)
            /\ last' = [NoLast EXCEPT !.op = "request_start_drag", !.id = d,
                                      !.serial = serial, !.outcome = "rejected"]

\* handle_drag_icon_map: icon->map(surface) on the object icon->data points
\* at.  On a freed wrapper the call lands in released memory and changes
\* nothing the program reads afterwards.
handle_drag_icon_map(ic) ==
    /\ drags[ic].status = "granted"
    /\ wrapper' = IF wrapper[ic].state = "alive"
                  THEN [wrapper EXCEPT ![ic].mapped = TRUE] ELSE wrapper
    /\ last' = [NoLast EXCEPT !.op = "icon_map", !.id = ic]
    /\ UNCHANGED <<seat, ndrags, drags, drag_icon, signals, devVars>>

\* handle_drag_icon_unmap
handle_drag_icon_unmap(ic) ==
    /\ drags[ic].status = "granted"
    /\ wrapper' = IF wrapper[ic].state = "alive"
                  THEN [wrapper EXCEPT ![ic].mapped = FALSE] ELSE wrapper
    /\ last' = [NoLast EXCEPT !.op = "icon_unmap", !.id = ic]
    /\ UNCHANGED <<seat, ndrags, drags, drag_icon, signals, devVars>>

\* handle_drag_icon_destroy: the slot is cleared whichever icon was destroyed
handle_drag_icon_destroy ==
    /\ wrapper'   = reset_drag_icon(wrapper, drag_icon)
    /\ drag_icon' = 0
    /\ signals'   = emit_signal(signals, "drag-stopped", FALSE, 0, FALSE)

\* The destroy notification of icon ic, delivered to the listener of a
\* wrapper that is still alive.
IconDestroy(ic) ==
    /\ drags[ic].status = "granted"
    /\ wrapper[ic].state = "alive"
    /\ drags' = [drags EXCEPT ![ic] = EndedDrag]
    /\ last' = [NoLast EXCEPT !.op = "icon_destroy", !.id = ic,
                              !.outcome = "notified"]
    /\ handle_drag_icon_destroy
    /\ UNCHANGED <<seat, ndrags, devVars>>

\* The destroy notification of an icon whose wrapper was freed by a later
\* start_drag: the icon's listener list still links the freed listener, and
\* walking it reads released memory.  Either the stale listener still holds
\* its notify pointer and handle_drag_icon_destroy runs ...
IconDestroyStaleRuns(ic) ==
    /\ drags[ic].status = "granted"
    /\ wrapper[ic].state = "freed"
    /\ drags' = [drags EXCEPT ![ic] = EndedDrag]
    /\ last' = [NoLast EXCEPT !.op = "icon_destroy", !.id = ic,
                              !.outcome = "stale-notified"]
    /\ handle_drag_icon_destroy
    /\ UNCHANGED <<seat, ndrags, devVars>>

\* ... or the memory was reused and the handler is not reached.
IconDestroyStaleLost(ic) ==
    /\ drags[ic].status = "granted"
    /\ wrapper[ic].state = "freed"
    /\ drags' = [drags EXCEPT ![ic] = EndedDrag]
    /\ last' = [NoLast EXCEPT !.op = "icon_destroy", !.id = ic,
                              !.outcome = "stale-lost"]
    /\ UNCHANGED <<seat, ndrags, wrapper, drag_icon, signals, devVars>>

\* The seat's grab state moves with button presses and touch downs.
SeatPointerGrab(serial) ==
    /\ seat.pointer_grab_serial # serial
    /\ seat' = [seat EXCEPT !.pointer_grab_serial = serial]
    /\ last' = [NoLast EXCEPT !.op = "seat_grab"]
    /\ UNCHANGED <<ndrags, drags, wrapper, drag_icon, signals, devVars>>

SeatTouchGrab(serial, point) ==
    /\ seat.touch_grab_serial # serial \/ seat.touch_id # point
    /\ (serial = 0) = (point = 0)
    /\ seat' = [seat EXCEPT !.touch_grab_serial = serial, !.touch_id = point]
    /\ last' = [NoLast EXCEPT !.op = "seat_grab"]
    /\ UNCHANGED <<ndrags, drags, wrapper, drag_icon, signals, devVars>>

RequestStartDrag == \E serial \in 0 .. MaxSerial : handle_request_start_drag_cb(serial)
IconMap          == \E ic \in Drags : handle_drag_icon_map(ic)
IconUnmap        == \E ic \in Drags : handle_drag_icon_unmap(ic)
IconDestroyed    == \E ic \in Drags : IconDestroy(ic)
IconDestroyedStaleRuns == \E ic \in Drags : IconDestroyStaleRuns(ic)
IconDestroyedStaleLost == \E ic \in Drags : IconDestroyStaleLost(ic)
PointerGrab      == \E serial \in 0 .. MaxSerial : SeatPointerGrab(serial)
TouchGrab        == \E serial \in 0 .. MaxSerial, point \in 0 .. MaxTouch :
                        SeatTouchGrab(serial, point)

(***************************************************************************)
(* The drag icon on the outputs                                            *)
(***************************************************************************)
MaxOutputs == 2     \* outputs in the layout

Outputs == 1 .. MaxOutputs

\* output->get_layout_geometry(): the outputs stand side by side, the first
\* one away from the layout's origin.
get_layout_geometry(o) == Box(100 + (o - 1) * 800, 0, 800, 600)

\* The scale of the output's target framebuffer
FramebufferScale(o) == o

\* operator & of two boxes: they share at least one point
Intersects(screen, win) ==
    ~ \/ win.x + win.width <= screen.x
      \/ win.y + win.height <= screen.y
      \/ screen.x + screen.width <= win.x
      \/ screen.y + screen.height <= win.y

\* wf_framebuffer::damage_box_from_geometry_box: the box in the framebuffer's
\* pixels
damage_box_from_geometry_box(o, box) ==
    Box(box.x * FramebufferScale(o), box.y * FramebufferScale(o),
        box.width * FramebufferScale(o), box.height * FramebufferScale(o))

\* wayfire_surface_t::is_mapped
is_mapped(w) == w.mapped

\* What output o receives from damage(box): one render->damage call, or none
output_damage(o, box) ==
    IF Intersects(get_layout_geometry(o), box)
    THEN <<[output |-> o,
            box |-> damage_box_from_geometry_box(o,
                        [box EXCEPT !.x = @ - get_layout_geometry(o).x,
                                    !.y = @ - get_layout_geometry(o).y])]>>
    ELSE <<>>

\* core->for_each_output over the outputs 1 .. n
RECURSIVE for_each_output_damage(_, _)
for_each_output_damage(n, box) ==
    IF n = 0 THEN <<>>
    ELSE for_each_output_damage(n - 1, box) \o output_damage(n, box)

\* damage without the is_mapped test
damage_unmapped_too(w, box) ==
    for_each_output_damage(MaxOutputs, box)

\* damage that hands the global box to every intersecting output
damage_untranslated(w, box) ==
    IF ~is_mapped(w) THEN <<>>
    ELSE SelectSeq([o \in Outputs |->
                      [output |-> o, box |-> damage_box_from_geometry_box(o, box)]],
                   LAMBDA sub : Intersects(get_layout_geometry(sub.output), box))

\* wf_drag_icon::damage(box): the render->damage calls it makes, in order
damage(w, box) ==
    IF ~is_mapped(w) THEN <<>>
    ELSE for_each_output_damage(MaxOutputs, box)

\* get_output_position adding the surface offset whether mapped or not
get_output_position_always_offset(drag, w, read) ==
    LET pos == IF drag.grab_type = "touch"
               THEN read.touch[drag.touch_id] ELSE read.cursor
        og  == IF w.output # 0 THEN get_layout_geometry(w.output)
               ELSE Box(0, 0, 0, 0)
    IN Point(pos.x + read.offset.x - og.x, pos.y + read.offset.y - og.y)

\* wf_drag_icon::get_output_position
get_output_position(drag, w, read) ==
    LET pos == IF drag.grab_type = "touch"
               THEN read.touch[drag.touch_id] ELSE read.cursor
        x1  == IF is_mapped(w) THEN pos.x + read.offset.x ELSE pos.x
        y1  == IF is_mapped(w) THEN pos.y + read.offset.y ELSE pos.y
    IN IF w.output # 0
       THEN Point(x1 - get_layout_geometry(w.output).x,
                  y1 - get_layout_geometry(w.output).y)
       ELSE Point(x1, y1)

\* input_manager::update_drag_icon: whether it calls update_output_position
update_drag_icon(slot, w) ==
    IF slot # 0 /\ is_mapped(w[slot]) THEN "update_output_position" ELSE "none"

\* The boxes handed to damage: inside the first output, across the border of
\* the first two, touching the first output from the left, below every
\* output, and wide enough to cross every output.
Boxes == {Box(150, 40, 20, 20), Box(890, 590, 20, 20), Box(80, 0, 20, 20),
          Box(150, 700, 20, 20), Box(0, 300, 800 * (MaxOutputs + 1), 10)}

\* The positions the seat reports: touch point t is 10 * t to the right of
\* and 200 below a base position.
Positions == {Point(150, 40), Point(950, 300)}
Offsets   == {Point(5, 5), Point(0 - 3, 0)}

\* The cursor is at one position, the first touch point near the other
Readings ==
    UNION {{Reading(c, [t \in Touches |-> Point(b.x + 10 * t, b.y + 200)], off) :
               b \in Positions \ {c}, off \in Offsets} : c \in Positions}

\* The surface code calls damage(box) on the drag icon in the slot.
Damage(box) ==
    /\ drag_icon # 0
    /\ last' = [NoLast EXCEPT !.op = "damage", !.id = drag_icon, !.box = box,
                              !.damage = damage(wrapper[drag_icon], box)]
    /\ UNCHANGED <<dragVars, devVars, signals>>

\* A caller asks the drag icon in the slot for its position.
GetOutputPosition(read) ==
    /\ drag_icon # 0
    /\ last' = [NoLast EXCEPT !.op = "get_output_position", !.id = drag_icon,
                              !.read = read,
                              !.pos = get_output_position(drags[drag_icon],
                                          wrapper[drag_icon], read)]
    /\ UNCHANGED <<dragVars, devVars, signals>>

\* The cursor or a touch point moved: update_drag_icon()
UpdateDragIcon ==
    /\ last' = [NoLast EXCEPT !.op = "update_drag_icon", !.id = drag_icon,
                              !.outcome = update_drag_icon(drag_icon, wrapper)]
    /\ UNCHANGED <<dragVars, devVars, signals>>

\* wayfire_surface_t::set_output on the drag icon in the slot
SetOutput(o) ==
    /\ drag_icon # 0
    /\ wrapper[drag_icon].output # o
    /\ wrapper' = [wrapper EXCEPT ![drag_icon].output = o]
    /\ last' = [NoLast EXCEPT !.op = "set_output", !.id = drag_icon]
    /\ UNCHANGED <<seat, ndrags, drags, drag_icon, devVars, signals>>

Damaged         == \E box \in Boxes : Damage(box)
PositionQueried == \E read \in Readings : GetOutputPosition(read)
DragIconUpdated == UpdateDragIcon
OutputAssigned  == \E o \in 0 .. MaxOutputs : SetOutput(o)

\* The requests and grabs the drag icon specification uses: one serial
DragRequested  == handle_request_start_drag_cb(1)
PointerPressed == \E serial \in {0, 1} : SeatPointerGrab(serial)
TouchedDown    == \E point \in 0 .. MaxTouch :
                      SeatTouchGrab(IF point = 0 THEN 0 ELSE 1, point)

(***************************************************************************)
(* Input devices                                                           *)
(***************************************************************************)
MaxDevices == 1     \* device slots; a slot is reused after its device is gone
MaxSignals == 2     \* switch toggles logged in one behaviour

Devices == 1 .. MaxDevices

\* The hardware a wlr_input_device can stand for: dev->type, whether the
\* backend is libinput, libinput_device_config_tap_get_finger_count,
\* libinput_device_config_scroll_has_natural_scroll and the click and scroll
\* methods libinput reports as the device's defaults.
Hw(type, libinput, fingers, has_natural, default_click, default_scroll) ==
    [type |-> type, libinput |-> libinput, fingers |-> fingers,
     has_natural |-> has_natural, default_click |-> default_click,
     default_scroll |-> default_scroll]

NoHw          == Hw("none", FALSE, 0, FALSE, "CLICK_METHOD_NONE", "SCROLL_NO_SCROLL")
Touchpad      == Hw("pointer", TRUE, 3, TRUE, "CLICK_METHOD_BUTTON_AREAS", "SCROLL_2FG")
PlainTouchpad == Hw("pointer", TRUE, 1, FALSE, "CLICK_METHOD_CLICKFINGER", "SCROLL_EDGE")
Mouse         == Hw("pointer", TRUE, 0, TRUE, "CLICK_METHOD_NONE", "SCROLL_ON_BUTTON_DOWN")
Keyboard      == Hw("keyboard", TRUE, 0, FALSE, "CLICK_METHOD_NONE", "SCROLL_NO_SCROLL")
LidSwitch     == Hw("switch", TRUE, 0, FALSE, "CLICK_METHOD_NONE", "SCROLL_NO_SCROLL")
VirtualPointer == Hw("pointer", FALSE, 0, FALSE, "CLICK_METHOD_NONE", "SCROLL_NO_SCROLL")
VirtualSwitch == Hw("switch", FALSE, 0, FALSE, "CLICK_METHOD_NONE", "SCROLL_NO_SCROLL")

DeviceKinds == {Touchpad, PlainTouchpad, Mouse, Keyboard, LidSwitch,
                VirtualPointer, VirtualSwitch}

PointerKinds == {Touchpad, PlainTouchpad, Mouse, VirtualPointer}

\* The settings libinput holds for a device.  A device of another backend has
\* no libinput handle: its settings are never read or written.
NoLibinput ==
    [accel |-> 0, tap |-> "none", click |-> "none", scroll |-> "none",
     dwt |-> "none", send_events |-> "none", natural_scroll |-> FALSE]

LibinputDefaults(hw) ==
    IF ~hw.libinput THEN NoLibinput
    ELSE [accel |-> 0, tap |-> "TAP_DISABLED", click |-> hw.default_click,
          scroll |-> hw.default_scroll, dwt |-> "DWT_ENABLED",
          send_events |-> "SEND_EVENTS_ENABLED", natural_scroll |-> FALSE]

\* One libinput call: the function, and its enum (s) or numeric (n) argument.
Call(fn, s, n) == [fn |-> fn, s |-> s, n |-> n]

\* What a libinput_device_config_* call does to the device's settings.
libinput_call(li, c) ==
    CASE c.fn = "accel_set_speed"   -> [li EXCEPT !.accel = c.n]
      [] c.fn = "tap_set_enabled"   -> [li EXCEPT !.tap = c.s]
      [] c.fn = "click_set_method"  -> [li EXCEPT !.click = c.s]
      [] c.fn = "scroll_set_method" -> [li EXCEPT !.scroll = c.s]
      [] c.fn = "dwt_set_enabled"   -> [li EXCEPT !.dwt = c.s]
      [] c.fn = "send_events_set_mode" -> [li EXCEPT !.send_events = c.s]
      [] c.fn = "scroll_set_natural_scroll_enabled" ->
                                       [li EXCEPT !.natural_scroll = (c.n # 0)]
      [] OTHER -> li

RECURSIVE libinput_calls(_, _)
libinput_calls(li, cs) ==
    IF cs = <<>> THEN li
    ELSE libinput_calls(libinput_call(li, Head(cs)), Tail(cs))

\* wf_input_device_internal::config_t::load: the eight options and the
\* defaults they take when the section does not set them.
DefaultConfig ==
    [mouse_cursor_speed |-> 0, touchpad_cursor_speed |-> 0,
     touchpad_tap_enabled |-> 1, touchpad_click_method |-> "default",
     touchpad_scroll_method |-> "default", touchpad_dwt_enabled |-> 0,
     touchpad_dwmouse_enabled |-> 0, touchpad_natural_scroll_enabled |-> 0]

\* A click_method branch that falls back to the default method
click_method_calls_fallback(hw, method) ==
    CASE method = "none" -> <<Call("click_set_method", "CLICK_METHOD_NONE", 0)>>
      [] method = "button-areas" ->
             <<Call("click_set_method", "CLICK_METHOD_BUTTON_AREAS", 0)>>
      [] method = "clickfinger" ->
             <<Call("click_set_method", "CLICK_METHOD_CLICKFINGER", 0)>>
      [] OTHER -> <<Call("click_set_method", hw.default_click, 0)>>

\* The click_method branch of update_options
click_method_calls(hw, method) ==
    CASE method = "default" -> <<Call("click_set_method", hw.default_click, 0)>>
      [] method = "none" -> <<Call("click_set_method", "CLICK_METHOD_NONE", 0)>>
      [] method = "button-areas" ->
             <<Call("click_set_method", "CLICK_METHOD_BUTTON_AREAS", 0)>>
      [] method = "clickfinger" ->
             <<Call("click_set_method", "CLICK_METHOD_CLICKFINGER", 0)>>
      [] OTHER -> <<>>

\* The scroll_method branch of update_options
scroll_method_calls(hw, method) ==
    CASE method = "default" -> <<Call("scroll_set_method", hw.default_scroll, 0)>>
      [] method = "none" -> <<Call("scroll_set_method", "SCROLL_NO_SCROLL", 0)>>
      [] method = "two-finger" -> <<Call("scroll_set_method", "SCROLL_2FG", 0)>>
      [] method = "edge" -> <<Call("scroll_set_method", "SCROLL_EDGE", 0)>>
      [] method = "on-button-down" ->
             <<Call("scroll_set_method", "SCROLL_ON_BUTTON_DOWN", 0)>>
      [] OTHER -> <<>>

\* The natural-scroll step without the has_natural_scroll test
natural_scroll_calls_unchecked(hw, cfg) ==
    <<Call("scroll_set_natural_scroll_enabled", "",
           IF cfg.touchpad_natural_scroll_enabled # 0 THEN 1 ELSE 0)>>

\* The natural-scroll step of update_options: the setter is called only when
\* libinput_device_config_scroll_has_natural_scroll is positive.
natural_scroll_calls(hw, cfg) ==
    IF hw.has_natural
    THEN <<Call("scroll_set_natural_scroll_enabled", "",
                IF cfg.touchpad_natural_scroll_enabled # 0 THEN 1 ELSE 0)>>
    ELSE <<>>

\* The else branch taking the touchpad speed
mouse_options_touchpad_speed(cfg) ==
    <<Call("accel_set_speed", "", cfg.touchpad_cursor_speed)>>

\* The else branch of update_options, taken by a libinput device that reports
\* no tap fingers.
mouse_options(cfg) ==
    <<Call("accel_set_speed", "", cfg.mouse_cursor_speed)>>

\* wf_input_device_internal::update_options: the libinput calls it makes,
\* in order, for a device of hardware hw under the configuration cfg.
update_options(hw, cfg) ==
    IF ~hw.libinput THEN <<>>
    ELSE IF hw.fingers > 0
    THEN <<Call("accel_set_speed", "", cfg.touchpad_cursor_speed),
           Call("tap_set_enabled",
                IF cfg.touchpad_tap_enabled # 0
                THEN "TAP_ENABLED" ELSE "TAP_DISABLED", 0)>>
         \o click_method_calls(hw, cfg.touchpad_click_method)
         \o scroll_method_calls(hw, cfg.touchpad_scroll_method)
         \o <<Call("dwt_set_enabled",
                   IF cfg.touchpad_dwt_enabled # 0
                   THEN "DWT_ENABLED" ELSE "DWT_DISABLED", 0),
              Call("send_events_set_mode",
                   IF cfg.touchpad_dwmouse_enabled # 0
                   THEN "SEND_EVENTS_DISABLED_ON_EXTERNAL_MOUSE"
                   ELSE "SEND_EVENTS_ENABLED", 0)>>
         \o natural_scroll_calls(hw, cfg)
    ELSE mouse_options(cfg)

\* is_enabled without the check for a libinput device
is_enabled_unchecked(dv) ==
    [ret |-> (dv.li.send_events = "SEND_EVENTS_ENABLED"),
     calls |-> <<Call("send_events_get_mode", "", 0)>>]

\* wf::input_device_t::is_enabled: the value returned and the calls made
is_enabled(dv) ==
    IF ~dv.hw.libinput
    THEN [ret |-> TRUE, calls |-> <<>>]
    ELSE [ret |-> (dv.li.send_events = "SEND_EVENTS_ENABLED"),
          calls |-> <<Call("send_events_get_mode", "", 0)>>]

\* set_enabled with the libinput check before the comparison
set_enabled_check_first(dv, enabled) ==
    IF ~dv.hw.libinput THEN [ret |-> FALSE, calls |-> <<>>]
    ELSE IF enabled = is_enabled(dv).ret
    THEN [ret |-> TRUE, calls |-> is_enabled(dv).calls]
    ELSE [ret |-> TRUE,
          calls |-> Append(is_enabled(dv).calls,
                      Call("send_events_set_mode",
                           IF enabled THEN "SEND_EVENTS_ENABLED"
                           ELSE "SEND_EVENTS_DISABLED", 0))]

\* set_enabled without the comparison against the current state
set_enabled_always_sets(dv, enabled) ==
    IF ~dv.hw.libinput THEN [ret |-> FALSE, calls |-> <<>>]
    ELSE [ret |-> TRUE,
          calls |-> <<Call("send_events_set_mode",
                           IF enabled THEN "SEND_EVENTS_ENABLED"
                           ELSE "SEND_EVENTS_DISABLED", 0)>>]

\* set_enabled disabling with the external-mouse mode
set_enabled_external_mouse(dv, enabled) ==
    LET cur == is_enabled(dv) IN
    IF enabled = cur.ret THEN [ret |-> TRUE, calls |-> cur.calls]
    ELSE IF ~dv.hw.libinput THEN [ret |-> FALSE, calls |-> cur.calls]
    ELSE [ret |-> TRUE,
          calls |-> Append(cur.calls,
                      Call("send_events_set_mode",
                           IF enabled THEN "SEND_EVENTS_ENABLED"
                           ELSE "SEND_EVENTS_DISABLED_ON_EXTERNAL_MOUSE", 0))]

\* wf::input_device_t::set_enabled: the value returned and the calls made
set_enabled(dv, enabled) ==
    LET cur == is_enabled(dv) IN
    IF enabled = cur.ret THEN [ret |-> TRUE, calls |-> cur.calls]
    ELSE IF ~dv.hw.libinput THEN [ret |-> FALSE, calls |-> cur.calls]
    ELSE [ret |-> TRUE,
          calls |-> Append(cur.calls,
                      Call("send_events_set_mode",
                           IF enabled THEN "SEND_EVENTS_ENABLED"
                           ELSE "SEND_EVENTS_DISABLED", 0))]

\* A device slot: the wlr_input_device (hw, li), the wrapper built for it and
\* the wrapper's two listeners.  *_link says the listener is linked in the
\* device's signal list; bad_remove records a wl_list_remove of a listener
\* that was never added.
NoDevice ==
    [state |-> "none", hw |-> NoHw, li |-> NoLibinput,
     destroy_link |-> FALSE, switched_link |-> FALSE,
     switched_notify |-> FALSE, bad_remove |-> FALSE]

\* wf_input_device_internal::wf_input_device_internal(dev)
wf_input_device_internal(hw, cfg) ==
    [state |-> "registered", hw |-> hw,
     li |-> libinput_calls(LibinputDefaults(hw), update_options(hw, cfg)),
     destroy_link |-> TRUE,
     switched_link |-> (hw.type = "switch"),
     switched_notify |-> (hw.type = "switch"),
     bad_remove |-> FALSE]

\* A destructor that leaves the toggle listener linked
destroy_keeps_switched(dv) ==
    [dv EXCEPT !.state = "released", !.hw = NoHw, !.li = NoLibinput,
               !.destroy_link = FALSE,
               !.bad_remove = ~dv.destroy_link]

\* wf_input_device_internal::~wf_input_device_internal.  The wrapper is
\* released and wlroots frees the device once the handler returns.
destroy_wf_input_device_internal(dv) ==
    [dv EXCEPT !.state = "released", !.hw = NoHw, !.li = NoLibinput,
               !.switched_link = IF dv.switched_notify THEN FALSE ELSE @,
               !.destroy_link = FALSE,
               !.bad_remove = \/ (dv.switched_notify /\ ~dv.switched_link)
                              \/ ~dv.destroy_link]

\* wf_input_device_internal::handle_switched: the name and the state of the
\* signal it emits.  A switch type outside the two cases leaves event_name
\* the empty string.
switch_event_name(switch_type) ==
    CASE switch_type = "TABLET_MODE" -> "tablet-mode"
      [] switch_type = "LID" -> "lid-state"
      [] OTHER -> ""

\* handle_switched taking every state but OFF for "on"
handle_switched_not_off(log, d, switch_type, switch_state) ==
    emit_signal(log, switch_event_name(switch_type), TRUE, d,
                switch_state # "OFF")

handle_switched(log, d, switch_type, switch_state) ==
    emit_signal(log, switch_event_name(switch_type), TRUE, d,
                switch_state = "ON")

SwitchTypes  == {"LID", "TABLET_MODE", "KEYPAD_SLIDE"}
SwitchStates == {"OFF", "ON", "TOGGLE"}

\* The backend announces a device; the input manager wraps it.
RegisterDevice(d, hw) ==
    /\ devs[d].state # "registered"
    /\ devs' = [devs EXCEPT ![d] = wf_input_device_internal(hw, config)]
    /\ last' = [NoLast EXCEPT !.op = "register", !.id = d,
                              !.calls = update_options(hw, config)]
    /\ UNCHANGED <<dragVars, config, signals>>

\* handle_device_destroy_cb: the input manager erases the wrapper, which
\* runs its destructor; wlroots then frees the device.
handle_device_destroy_cb(d) ==
    /\ devs[d].state = "registered"
    /\ devs[d].destroy_link
    /\ devs' = [devs EXCEPT ![d] = destroy_wf_input_device_internal(@)]
    /\ last' = [NoLast EXCEPT !.op = "device_destroy", !.id = d,
                              !.arg = devs[d].hw.type]
    /\ UNCHANGED <<dragVars, config, signals>>

\* handle_device_switch_cb
handle_device_switch_cb(d, switch_type, switch_state) ==
    /\ devs[d].state = "registered"
    /\ devs[d].switched_link
    /\ Len(signals) < MaxSignals
    /\ signals' = handle_switched(signals, d, switch_type, switch_state)
    /\ last' = [NoLast EXCEPT !.op = "switch_toggle", !.id = d,
                              !.outcome = switch_type, !.arg = switch_state]
    /\ UNCHANGED <<dragVars, devVars>>

\* A caller asks for set_enabled(enabled) on a registered device.
SetEnabled(d, enabled) ==
    LET r == set_enabled(devs[d], enabled) IN
    /\ devs[d].state = "registered"
    /\ devs' = [devs EXCEPT ![d].li = libinput_calls(@, r.calls)]
    /\ last' = [NoLast EXCEPT !.op = "set_enabled", !.id = d,
                              !.flag = enabled, !.ret = r.ret,
                              !.calls = r.calls]
    /\ UNCHANGED <<dragVars, config, signals>>

\* A caller asks for is_enabled() on a registered device.
IsEnabled(d) ==
    LET r == is_enabled(devs[d]) IN
    /\ devs[d].state = "registered"
    /\ last' = [NoLast EXCEPT !.op = "is_enabled", !.id = d,
                              !.ret = r.ret, !.calls = r.calls]
    /\ UNCHANGED <<dragVars, devVars, signals>>

\* update_options() adjusting the speed relative to the current one
ApplyConfig_relative_speed(d) ==
    LET cs == update_options(devs[d].hw, config) IN
    /\ devs[d].state = "registered"
    /\ devs' = [devs EXCEPT ![d].li =
                  [libinput_calls(@, cs) EXCEPT !.accel = devs[d].li.accel + @]]
    /\ last' = [NoLast EXCEPT !.op = "apply_config", !.id = d, !.calls = cs]
    /\ UNCHANGED <<dragVars, config, signals>>

\* update_options() on a registered device (re-apply after hot-plug).
ApplyConfig(d) ==
    LET cs == update_options(devs[d].hw, config) IN
    /\ devs[d].state = "registered"
    /\ devs' = [devs EXCEPT ![d].li = libinput_calls(@, cs)]
    /\ last' = [NoLast EXCEPT !.op = "apply_config", !.id = d, !.calls = cs]
    /\ UNCHANGED <<dragVars, config, signals>>

\* The configuration is reloaded: config_t::load replaces the options, and
\* every registered device re-applies them before anything else runs.
ReloadConfig(cfg) ==
    /\ cfg # config
    /\ config' = cfg
    /\ devs' = [d \in Devices |->
                  IF devs[d].state = "registered"
                  THEN [devs[d] EXCEPT
                          !.li = libinput_calls(@, update_options(devs[d].hw, cfg))]
                  ELSE devs[d]]
    /\ last' = [NoLast EXCEPT !.op = "reload_config"]
    /\ UNCHANGED <<dragVars, signals>>

(***************************************************************************)
(* Configurations loaded in the device specifications                      *)
(***************************************************************************)
MethodStrings == {"default", "none", "button-areas", "clickfinger",
                  "two-finger", "edge", "on-button-down", "bogus"}

\* click_method and scroll_method range over every string
MethodConfigs ==
    {[DefaultConfig EXCEPT !.touchpad_click_method = c,
                           !.touchpad_scroll_method = s] :
        c \in MethodStrings, s \in MethodStrings}

\* disable_touchpad_while_mouse and tap_to_click range over 0 and 1
EnableConfigs ==
    {[DefaultConfig EXCEPT !.touchpad_dwmouse_enabled = m,
                           !.touchpad_tap_enabled = t] :
        m \in {0, 1}, t \in {0, 1}}

\* The options that come in groups: tap_to_click, click_method,
\* scroll_method, disable_while_typing and disable_touchpad_while_mouse
OptionGroups ==
    {[DefaultConfig EXCEPT !.touchpad_tap_enabled = 0,
                           !.touchpad_click_method = "clickfinger",
                           !.touchpad_scroll_method = "edge",
                           !.touchpad_dwt_enabled = 1,
                           !.touchpad_dwmouse_enabled = 1],
     [DefaultConfig EXCEPT !.touchpad_click_method = "bogus",
                           !.touchpad_scroll_method = "bogus",
                           !.touchpad_dwt_enabled = 1],
     DefaultConfig}

\* The two speeds and natural_scroll range over 0 and 1, beside each group
ApplyConfigs ==
    {[g EXCEPT !.mouse_cursor_speed = m,
               !.touchpad_cursor_speed = t,
               !.touchpad_natural_scroll_enabled = n] :
        g \in OptionGroups, m \in {0, 1}, t \in {0, 1}, n \in {0, 1}}

(***************************************************************************)
(* Specifications                                                          *)
(***************************************************************************)
Init ==
    /\ seat = [pointer_grab_serial |-> 0, touch_grab_serial |-> 0, touch_id |-> 0]
    /\ ndrags = 0
    /\ drags = [d \in Drags |-> NoDrag]
    /\ wrapper = [d \in Drags |-> NoWrapper]
    /\ drag_icon = 0
    /\ devs = [d \in Devices |-> NoDevice]
    /\ config = DefaultConfig
    /\ signals = <<>>
    /\ last = NoLast

DeviceAnnounced  == \E d \in Devices, hw \in DeviceKinds : RegisterDevice(d, hw)
PointerAnnounced == \E d \in Devices, hw \in PointerKinds : RegisterDevice(d, hw)
DeviceDestroyed  == \E d \in Devices : handle_device_destroy_cb(d)
SwitchToggled    == \E d \in Devices, t \in SwitchTypes, st \in SwitchStates :
                        handle_device_switch_cb(d, t, st)
EnabledSet       == \E d \in Devices, e \in BOOLEAN : SetEnabled(d, e)
EnabledQueried   == \E d \in Devices : IsEnabled(d)
ConfigApplied    == \E d \in Devices : ApplyConfig(d)
MethodsReloaded  == \E cfg \in MethodConfigs : ReloadConfig(cfg)
EnableReloaded   == \E cfg \in EnableConfigs : ReloadConfig(cfg)
OptionsReloaded  == \E cfg \in ApplyConfigs : ReloadConfig(cfg)

\* Drag and drop on the seat
NextDrag ==
    \/ RequestStartDrag
    \/ IconMap
    \/ IconUnmap
    \/ IconDestroyed
    \/ IconDestroyedStaleRuns
    \/ IconDestroyedStaleLost
    \/ PointerGrab
    \/ TouchGrab

SpecDrag == Init /\ [][NextDrag]_vars

\* Device lifecycle and switch toggles
NextSwitch ==
    \/ DeviceAnnounced
    \/ DeviceDestroyed
    \/ SwitchToggled

SpecSwitch == Init /\ [][NextSwitch]_vars

\* Enabling and disabling devices, with configurations that move the
\* send-events mode
NextEnable ==
    \/ DeviceAnnounced
    \/ DeviceDestroyed
    \/ EnabledSet
    \/ EnabledQueried
    \/ ConfigApplied
    \/ EnableReloaded

SpecEnable == Init /\ [][NextEnable]_vars

\* Click and scroll method resolution
NextMethods ==
    \/ PointerAnnounced
    \/ DeviceDestroyed
    \/ ConfigApplied
    \/ MethodsReloaded

SpecMethods == Init /\ [][NextMethods]_vars

\* The drag icon: its position and the damage it causes
NextIcon ==
    \/ DragRequested
    \/ PointerPressed
    \/ TouchedDown
    \/ IconMap
    \/ IconUnmap
    \/ IconDestroyed
    \/ IconDestroyedStaleRuns
    \/ IconDestroyedStaleLost
    \/ OutputAssigned
    \/ Damaged
    \/ PositionQueried
    \/ DragIconUpdated

SpecIcon == Init /\ [][NextIcon]_vars

\* Applying the configuration to devices of every kind
NextApply ==
    \/ DeviceAnnounced
    \/ DeviceDestroyed
    \/ ConfigApplied
    \/ OptionsReloaded

SpecApply == Init /\ [][NextApply]_vars

\* Everything together
Next == NextDrag \/ NextSwitch \/ NextEnable \/ NextMethods \/ NextApply
          \/ NextIcon

Spec == Init /\ [][Next]_vars


(***************************************************************************)
(* Claims                                                                  *)
(***************************************************************************)
NumSignals(name) ==
    Cardinality({i \in 1 .. Len(signals) : signals[i].name = name})

CallsTo(calls, fn) == SelectSeq(calls, LAMBDA c : c.fn = fn)

\* C1: the drag slot holds a drag icon exactly while some granted drag's icon
\* has not received its destroy notification, and at most one wf_drag_icon
\* exists at any time.
C1_SlotIffIconAlive ==
    /\ (drag_icon # 0) <=> (\E d \in Drags : drags[d].status = "granted")
    /\ Cardinality({d \in Drags : wrapper[d].state = "alive"}) <= 1

\* C2: a start-drag request whose serial validates neither as the pointer
\* grab serial nor as the touch grab serial creates no wf_drag_icon, leaves
\* the drag slot as it was (empty stays empty), publishes no signal, and has
\* its data source destroyed.
C2_InvalidSerialRejected ==
    [][\A serial \in 0 .. MaxSerial :
         ( /\ last'.op = "request_start_drag"
           /\ last'.serial = serial
           /\ ~validate_pointer_grab_serial(seat, serial)
           /\ ~validate_touch_grab_serial(seat, serial) )
         => /\ wrapper' = wrapper
            /\ drag_icon' = drag_icon
            /\ signals' = signals
            /\ drags'[last'.id].status = "rejected"
            /\ drags'[last'.id].source_destroyed]_vars

C2_Witness ==
    /\ last.op = "request_start_drag"
    /\ seat.pointer_grab_serial # 0
    /\ seat.touch_grab_serial # 0
    /\ last.serial \notin {seat.pointer_grab_serial, seat.touch_grab_serial}
    /\ drags[last.id].source_destroyed
    /\ drag_icon = 0
    /\ signals = <<>>

C4_ListenersFollowWrapper ==
    \A d \in Devices :
        /\ devs[d].state = "registered" =>
             /\ devs[d].destroy_link
             /\ devs[d].switched_link <=> (devs[d].hw.type = "switch")
        /\ devs[d].state = "released" =>
             /\ ~devs[d].destroy_link
             /\ ~devs[d].switched_link
        /\ ~devs[d].bad_remove

C4_Witness ==
    /\ last.op = "device_destroy"
    /\ last.arg = "switch"
    /\ devs[last.id].state = "released"
    /\ signals # <<>>

\* C5 as claimed: on a device that is not a libinput device set_enabled
\* returns false for both argument values.
C5_AlwaysFalse ==
    (last.op = "set_enabled" /\ ~devs[last.id].hw.libinput) => ~last.ret

\* C5 amended: on a device that is not a libinput device set_enabled(false)
\* returns false and set_enabled(true) returns true, and neither makes a
\* libinput call.
C5_FalseOnlyForDisable ==
    (last.op = "set_enabled" /\ ~devs[last.id].hw.libinput) =>
        /\ last.ret = last.flag
        /\ last.calls = <<>>
        /\ devs[last.id].li = NoLibinput

C5_Witness ==
    /\ last.op = "set_enabled"
    /\ ~devs[last.id].hw.libinput
    /\ ~last.flag
    /\ ~last.ret

\* C6: on a device that is not a libinput device is_enabled returns true in
\* every reachable state and makes no libinput call; no handler makes a
\* libinput call for such a device.
C6_NonLibinputAlwaysEnabled ==
    \A d \in Devices :
        (devs[d].state = "registered" /\ ~devs[d].hw.libinput) =>
            /\ is_enabled(devs[d]).ret
            /\ is_enabled(devs[d]).calls = <<>>
            /\ devs[d].li = NoLibinput
            /\ last.id = d => last.calls = <<>>
            /\ (last.id = d /\ last.op = "is_enabled") => last.ret

C6_Witness ==
    /\ last.op = "is_enabled"
    /\ ~devs[last.id].hw.libinput
    /\ last.ret
    /\ config.touchpad_dwmouse_enabled = 1

\* C7: on a libinput device set_enabled(e) called while is_enabled() equals e
\* returns true, calls no mode setter and leaves the send-events mode (and
\* every other setting) as it was.
C7_SameStateNoOp ==
    [][\A d \in Devices :
         ( /\ last'.op = "set_enabled"
           /\ last'.id = d
           /\ devs[d].hw.libinput
           /\ is_enabled(devs[d]).ret = last'.flag )
         => /\ last'.ret
            /\ CallsTo(last'.calls, "send_events_set_mode") = <<>>
            /\ devs'[d].li = devs[d].li]_vars

C7_Witness ==
    /\ last.op = "set_enabled"
    /\ ~last.flag
    /\ last.ret
    /\ devs[last.id].li.send_events = "SEND_EVENTS_DISABLED_ON_EXTERNAL_MOUSE"
    /\ CallsTo(last.calls, "send_events_set_mode") = <<>>

\* C8: a toggle event whose switch type is neither tablet-mode nor lid
\* publishes no signal.
C8_OtherSwitchSilent ==
    [][(last'.op = "switch_toggle"
          /\ last'.outcome \notin {"TABLET_MODE", "LID"})
       => signals' = signals]_vars

\* C9: a tablet-mode toggle publishes exactly one "tablet-mode" signal and a
\* lid toggle exactly one "lid-state" signal, carrying the device and a
\* state that is true exactly when the switch state is ON.
C9_SwitchTranslated ==
    [][(last'.op = "switch_toggle"
          /\ last'.outcome \in {"TABLET_MODE", "LID"})
       => signals' = Append(signals,
              Signal(IF last'.outcome = "TABLET_MODE"
                     THEN "tablet-mode" ELSE "lid-state",
                     TRUE, last'.id, last'.arg = "ON"))]_vars

C9_Witness ==
    /\ Len(signals) = 2
    /\ signals[1] = Signal("tablet-mode", TRUE, 1, TRUE)
    /\ signals[2] = Signal("lid-state", TRUE, 1, FALSE)
    /\ last.arg = "TOGGLE"

\* C10: on a touchpad update_options resolves the click and the scroll
\* method over all strings: "default" sets the device's default method, a
\* recognised name sets that method, any other string makes no setter call
\* and leaves the method as it was.
ClickMethodOf(hw, method) ==
    CASE method = "default" -> hw.default_click
      [] method = "none" -> "CLICK_METHOD_NONE"
      [] method = "button-areas" -> "CLICK_METHOD_BUTTON_AREAS"
      [] method = "clickfinger" -> "CLICK_METHOD_CLICKFINGER"
      [] OTHER -> "unchanged"

ScrollMethodOf(hw, method) ==
    CASE method = "default" -> hw.default_scroll
      [] method = "none" -> "SCROLL_NO_SCROLL"
      [] method = "two-finger" -> "SCROLL_2FG"
      [] method = "edge" -> "SCROLL_EDGE"
      [] method = "on-button-down" -> "SCROLL_ON_BUTTON_DOWN"
      [] OTHER -> "unchanged"

C10_MethodsResolved ==
    [][\A d \in Devices :
         ( /\ \/ last'.op = "apply_config" /\ last'.id = d
              \/ last'.op = "reload_config" /\ devs[d].state = "registered"
           /\ devs[d].hw.libinput
           /\ devs[d].hw.fingers > 0 )
         => LET click  == ClickMethodOf(devs[d].hw, config'.touchpad_click_method)
                scroll == ScrollMethodOf(devs[d].hw, config'.touchpad_scroll_method)
                logged == last'.op = "apply_config"
            IN  /\ IF click = "unchanged"
                   THEN /\ CallsTo(last'.calls, "click_set_method") = <<>>
                        /\ devs'[d].li.click = devs[d].li.click
                   ELSE /\ logged => CallsTo(last'.calls, "click_set_method")
                                       = <<Call("click_set_method", click, 0)>>
                        /\ devs'[d].li.click = click
                /\ IF scroll = "unchanged"
                   THEN /\ CallsTo(last'.calls, "scroll_set_method") = <<>>
                        /\ devs'[d].li.scroll = devs[d].li.scroll
                   ELSE /\ logged => CallsTo(last'.calls, "scroll_set_method")
                                       = <<Call("scroll_set_method", scroll, 0)>>
                        /\ devs'[d].li.scroll = scroll]_vars

C10_Witness ==
    /\ last.op = "apply_config"
    /\ devs[last.id].hw = Touchpad
    /\ config.touchpad_click_method = "two-finger"
    /\ config.touchpad_scroll_method = "clickfinger"
    /\ devs[last.id].li.click = "CLICK_METHOD_CLICKFINGER"
    /\ devs[last.id].li.scroll = "SCROLL_EDGE"
    /\ CallsTo(last.calls, "click_set_method") = <<>>
    /\ CallsTo(last.calls, "scroll_set_method") = <<>>


\* C15: a start-drag request has exactly one of three outcomes, in this
\* priority: a pointer drag if the serial validates as the pointer grab
\* serial (even if it also validates as the touch grab serial), else a touch
\* drag with the touch point of the validation, else the data source is
\* destroyed; the source of a request that started a drag is not destroyed.
C15_RequestOutcome ==
    [][\A serial \in 0 .. MaxSerial :
         (last'.op = "request_start_drag" /\ last'.serial = serial)
         => LET d == last'.id IN
            IF validate_pointer_grab_serial(seat, serial)
            THEN /\ drags'[d] = [NoDrag EXCEPT !.status = "granted",
                                               !.grab_type = "pointer"]
                 /\ drag_icon' = d
            ELSE IF validate_touch_grab_serial(seat, serial)
            THEN /\ drags'[d] = [NoDrag EXCEPT !.status = "granted",
                                               !.grab_type = "touch",
                                               !.touch_id = seat.touch_id]
                 /\ drag_icon' = d
            ELSE /\ drags'[d] = [NoDrag EXCEPT !.status = "rejected",
                                               !.source_destroyed = TRUE]
                 /\ drag_icon' = drag_icon]_vars

C15_Witness ==
    /\ last.op = "request_start_drag"
    /\ seat.pointer_grab_serial = last.serial
    /\ seat.touch_grab_serial = last.serial
    /\ drags[last.id].status = "granted"
    /\ drags[last.id].grab_type = "pointer"
    /\ ~drags[last.id].source_destroyed
    /\ \E d \in Drags : drags[d].grab_type = "touch" /\ drags[d].touch_id = MaxTouch

\* C20: drag-started and drag-stopped alternate, beginning with
\* drag-started.
C20_StartStopAlternate ==
    \A i \in 1 .. Len(signals) :
        signals[i].name = IF i % 2 = 1 THEN "drag-started" ELSE "drag-stopped"


\* C18: apply_config does not change the enabled state: right after
\* set_enabled(false) returned true, applying the configuration (to the
\* device, or to every device on a reload) leaves is_enabled() false.
C18_ApplyKeepsDisabled ==
    [][(/\ last.op = "set_enabled" /\ ~last.flag /\ last.ret
        /\ last'.op \in {"apply_config", "reload_config"})
       => ~is_enabled(devs'[last.id]).ret]_vars

\* C19: on a libinput device, whatever its send-events mode, set_enabled(e)
\* returns true and is_enabled() then returns e; when the state differed
\* the setter is called exactly once, with ENABLED for true and DISABLED for
\* false.
C19_SetThenGet ==
    [][\A d \in Devices, e \in BOOLEAN :
         (/\ last'.op = "set_enabled" /\ last'.id = d /\ last'.flag = e
          /\ devs[d].hw.libinput)
         => /\ last'.ret
            /\ is_enabled(devs'[d]).ret = e
            /\ is_enabled(devs[d]).ret # e
               => CallsTo(last'.calls, "send_events_set_mode")
                    = <<Call("send_events_set_mode",
                             IF e THEN "SEND_EVENTS_ENABLED"
                             ELSE "SEND_EVENTS_DISABLED", 0)>>]_vars

\* set_enabled(false) has just disabled a touchpad whose configuration asks
\* for the external-mouse mode
C19_Witness ==
    /\ last.op = "set_enabled" /\ ~last.flag /\ last.ret
    /\ devs[last.id].hw.fingers > 0
    /\ config.touchpad_dwmouse_enabled = 1
    /\ devs[last.id].li.send_events = "SEND_EVENTS_DISABLED"
    /\ CallsTo(last.calls, "send_events_set_mode") # <<>>


\* The devices a step applied the configuration to: the one named by
\* apply_config, every registered one on a reload.
Applied(d) ==
    /\ devs[d].state = "registered"
    /\ \/ last'.op = "apply_config" /\ last'.id = d
       \/ last'.op = "reload_config"

\* C14: applying the same configuration a second time, right after it was
\* applied (by the constructor, by apply_config or by a reload), leaves the
\* libinput settings of the device as the first application left them.
C14_ApplyIdempotent ==
    [][(/\ last.op \in {"register", "apply_config", "reload_config"}
        /\ last'.op = "apply_config"
        /\ last.op # "reload_config" => last.id = last'.id)
       => devs' = devs]_vars

\* a touchpad keeps a click method from an earlier configuration under a
\* configuration with an unrecognised method and non-zero speed
C14_Witness ==
    /\ last.op = "apply_config"
    /\ devs[last.id].hw = Touchpad
    /\ config.touchpad_click_method = "bogus"
    /\ config.touchpad_cursor_speed = 1
    /\ devs[last.id].li.click = "CLICK_METHOD_CLICKFINGER"
    /\ devs[last.id].li.accel = 1

\* C16: applying the configuration to a libinput device that is not a
\* touchpad changes only the acceleration speed, which becomes
\* mouse_cursor_speed; applying it to a device that is not a libinput device
\* changes nothing.
C16_MouseOnlySpeed ==
    [][\A d \in Devices :
         (Applied(d) /\ devs[d].hw.fingers = 0)
         => IF devs[d].hw.libinput
            THEN devs'[d] = [devs[d] EXCEPT !.li.accel = config'.mouse_cursor_speed]
            ELSE devs'[d] = devs[d]]_vars

C16_Witness ==
    /\ last.op = "apply_config"
    /\ devs[last.id].hw = Mouse
    /\ config.mouse_cursor_speed = 1
    /\ config.touchpad_cursor_speed = 0
    /\ config.touchpad_natural_scroll_enabled = 1
    /\ config.touchpad_dwmouse_enabled = 1
    /\ devs[last.id].li = [LibinputDefaults(Mouse) EXCEPT !.accel = 1]

\* C17: applying the configuration to a touchpad takes the acceleration
\* speed from touchpad_cursor_speed, and sets natural scrolling exactly when
\* the device supports it; on a device without that support the setting is
\* left as it was and its setter is not called.
C17_TouchpadSpeedAndNatural ==
    [][\A d \in Devices :
         (Applied(d) /\ devs[d].hw.libinput /\ devs[d].hw.fingers > 0)
         => /\ devs'[d].li.accel = config'.touchpad_cursor_speed
            /\ IF devs[d].hw.has_natural
               THEN devs'[d].li.natural_scroll
                      = (config'.touchpad_natural_scroll_enabled # 0)
               ELSE devs'[d].li.natural_scroll = devs[d].li.natural_scroll
            /\ last'.op = "apply_config"
               => Len(CallsTo(last'.calls, "scroll_set_natural_scroll_enabled"))
                    = IF devs[d].hw.has_natural THEN 1 ELSE 0]_vars

C17_Witness ==
    /\ last.op = "apply_config"
    /\ devs[last.id].hw = PlainTouchpad
    /\ config.touchpad_natural_scroll_enabled = 1
    /\ config.mouse_cursor_speed = 1
    /\ config.touchpad_cursor_speed = 0
    /\ devs[last.id].li.accel = 0
    /\ ~devs[last.id].li.natural_scroll


\* The render->damage calls output o received in the last damage(box)
SubmittedTo(o) == SelectSeq(last.damage, LAMBDA sub : sub.output = o)

\* The box of the last damage(box) in the coordinates of output o
LocalBox(o) ==
    [last.box EXCEPT !.x = @ - get_layout_geometry(o).x,
                     !.y = @ - get_layout_geometry(o).y]

\* C11 as stated: damage(box) on a mapped icon submits once to each output
\* whose layout geometry intersects the box and to no other, and the box
\* submitted is the global box moved by the output's origin, its width and
\* height unchanged.
C11_TranslatedBoxSubmitted ==
    (last.op = "damage" /\ wrapper[last.id].mapped)
    => \A o \in Outputs :
         SubmittedTo(o) = IF Intersects(get_layout_geometry(o), last.box)
                          THEN <<[output |-> o, box |-> LocalBox(o)]>>
                          ELSE <<>>

\* C11: damage(box) on a mapped icon submits once to each output whose
\* layout geometry intersects the box and to no other, and the box
\* submitted is the global box moved by the output's origin and then
\* converted by the output framebuffer's damage_box_from_geometry_box.
C11_ConvertedBoxSubmitted ==
    (last.op = "damage" /\ wrapper[last.id].mapped)
    => \A o \in Outputs :
         SubmittedTo(o) = IF Intersects(get_layout_geometry(o), last.box)
                          THEN <<[output |-> o,
                                  box |-> damage_box_from_geometry_box(o, LocalBox(o))]>>
                          ELSE <<>>

\* a mapped icon damaged a box that lies across the border of two outputs
C11_Witness ==
    /\ last.op = "damage"
    /\ wrapper[last.id].mapped
    /\ last.box = Box(890, 590, 20, 20)
    /\ Len(last.damage) = 2

\* C12: while the icon in the slot is not mapped, damage(box) submits
\* nothing to any output; while it is not mapped, and while the slot is
\* empty, update_drag_icon does not update the position.
C12_UnmappedSuppressed ==
    /\ (last.op = "damage" /\ ~wrapper[last.id].mapped) => last.damage = <<>>
    /\ (last.op = "update_drag_icon"
          /\ (drag_icon = 0 \/ ~wrapper[drag_icon].mapped))
       => last.outcome = "none"

\* an icon that is not mapped was asked to damage a box lying on two outputs
C12_Witness ==
    /\ last.op = "damage"
    /\ ~wrapper[last.id].mapped
    /\ last.box = Box(890, 590, 20, 20)
    /\ last.damage = <<>>

\* C13: get_output_position returns the anchor, plus the surface offset if
\* the icon is mapped, minus the origin of the assigned output if there is
\* one; the anchor is the position, read in this call, of the drag's touch
\* point for a touch drag and of the cursor otherwise.
C13_OutputPosition ==
    last.op = "get_output_position"
    => LET drag   == drags[last.id]
           w      == wrapper[last.id]
           anchor == IF drag.grab_type = "touch"
                     THEN last.read.touch[drag.touch_id] ELSE last.read.cursor
           off    == IF w.mapped THEN last.read.offset ELSE Point(0, 0)
           origin == IF w.output # 0
                     THEN Point(get_layout_geometry(w.output).x,
                                get_layout_geometry(w.output).y)
                     ELSE Point(0, 0)
       IN last.pos = Point(anchor.x + off.x - origin.x,
                           anchor.y + off.y - origin.y)

\* a mapped icon of a drag by the second touch point, on the second output
C13_Witness ==
    /\ last.op = "get_output_position"
    /\ drags[last.id].grab_type = "touch"
    /\ drags[last.id].touch_id = 2
    /\ wrapper[last.id].mapped
    /\ wrapper[last.id].output = 2
    /\ last.read.offset = Point(5, 5)
    /\ last.read.touch[2] = Point(170, 240)
    /\ last.pos = Point(0 - 725, 245)

====
